---- MODULE Spec2Model ----
(***************************************************************************)
(* Model of `wasmer app secrets reveal`                                    *)
(* (lib/cli/src/commands/app/secrets/reveal.rs).                           *)
(*                                                                         *)
(* One behaviour is one invocation of the command: clap validates the      *)
(* arguments, run_async builds the client, get_app_id picks the app,       *)
(* get_secret_name picks the secret (single mode), the secret(s) are       *)
(* fetched and printed.  Strings that are printed are sequences of         *)
(* one-character strings, so that escaping and newlines are visible.       *)
(* An Option is a sequence of length 0 (None) or 1 (Some(x)).              *)
(***************************************************************************)
EXTENDS Naturals, Sequences, FiniteSets

VARIABLES
    self,         \* the parsed CmdAppSecretsReveal
    fs_config,    \* what get_app_id_from_config finds in the app directory
    pc,           \* position of the invocation
    app_id,       \* local `app_id` of run_async ("" before it is bound)
    name,         \* local `name` of run_async, an Option
    value,        \* local `value` of run_async, an Option
    secrets,      \* local `secrets` of run_async
    err,          \* the error run_async returned ("" when none)
    raised,       \* every Err produced by a step of this invocation
    log,          \* the collaborators called so far, in call order
    outstanding,  \* remote calls issued and not yet returned
    stdout,       \* what was written to standard output
    rendered      \* the arguments handed to the external format renderers

vars == <<self, fs_config, pc, app_id, name, value, secrets, err, raised, log,
          outstanding, stdout, rendered>>

-----------------------------------------------------------------------------
(* Bounds and input domains *)

MaxSecrets == 2

None == <<>>
Some(x) == <<x>>
Option(S) == {None} \cup {Some(x) : x \in S}

QUOTE == "\""
NEWLINE == "\n"
BACKSLASH == "\\"

\* secret names the user can type and the remote can deliver
SecretNames == { <<"K">>, <<"T">>, <<"K", NEWLINE, "T">> }
\* secret values the remote can deliver
SecretValues == { <<>>, <<"a", QUOTE, "b">>, <<NEWLINE>>, <<BACKSLASH, QUOTE>> }
Secret == [name : SecretNames, value : SecretValues]

RECURSIVE SeqsUpTo(_, _)
SeqsUpTo(S, n) ==
    IF n = 0 THEN { <<>> }
    ELSE LET shorter == SeqsUpTo(S, n - 1)
         IN  shorter \cup { Append(s, x) : s \in { t \in shorter : Len(t) = n - 1 }, x \in S }

SecretLists == SeqsUpTo(Secret, MaxSecrets)

AppIdents == { "my-app" }
AppDirs == { "/proj" }
ResolvedIds == { "app_123" }
ConfigIds == { "app_cfg" }
ListFormat == { "Json", "Yaml", "Table", "ItemTable" }

-----------------------------------------------------------------------------
(* Errors.  anyhow errors are told apart by their message; errors of the   *)
(* collaborators are named by the kind of failure.  A string literal       *)
(* cannot hold a lone backquote, so the backquotes around the flag names   *)
(* in the two bail! messages are spliced in.                               *)

BACKQUOTE == SubSeq("`'", 1, 1)

MissingAppId ==
    "No app id given. Use the " \o BACKQUOTE \o "--app_id" \o BACKQUOTE \o " flag to specify one."
MissingSecretName ==
    "No secret name given. Use the " \o BACKQUOTE \o "--name" \o BACKQUOTE \o " flag to specify one."
UnsupportedFormat == "The 'item-table' format is not available for single values."
ClientError == "ClientError"
ResolutionError == "ResolutionError"
IoError == "IoError"
ConfigError == "ConfigError"
InputError == "InputError"
NotFoundError == "NotFoundError"
ApiError == "ApiError"

-----------------------------------------------------------------------------
(* The struct and its clap attributes *)

CmdAppSecretsReveal ==
    [ secret_name     : Option(SecretNames),
      app_id          : Option(AppIdents),
      app_dir_path    : Option(AppDirs),
      all             : BOOLEAN,
      non_interactive : BOOLEAN,
      fmt             : Option(ListFormat) ]

\* mutant: --all lost its conflicts_with
Conflicts_m(s) == s.app_dir_path # None /\ s.app_id # None

\* conflicts_with = "app_id" on --app-dir, conflicts_with = "name" on --all
Conflicts(s) ==
    \/ s.app_dir_path # None /\ s.app_id # None
    \/ s.all /\ s.secret_name # None

-----------------------------------------------------------------------------
(* Pure parts of get_app_id and run_async *)

\* mutant: the explicit id is honoured only when prompting is off
HasExplicitAppId_m(s) == s.app_id # None /\ s.non_interactive

\* `if let Some(app_id) = &self.app_id`
HasExplicitAppId(s) == s.app_id # None

\* `if let Ok(Some(app_id)) = get_app_id_from_config(..).await`:
\* only Ok(Some(id)) matches, Ok(None) and Err(_) both fall through
ConfigYieldsId(r) == r \in ConfigIds

\* mutant: the non_interactive test is dropped
MayPrompt_m(s) == TRUE

\* `if self.non_interactive { bail!(..) } else { prompt .. }`
MayPrompt(s) == ~s.non_interactive

\* mutant: the secret name is resolved in every mode
NeedsSecretName_m(s) == TRUE

\* `if !self.all`
NeedsSecretName(s) == ~s.all

\* mutant: item-table is mapped like table
ItemFormatOf_m(f) ==
    CASE f = "Json"      -> "Json"
      [] f = "Yaml"      -> "Yaml"
      [] f = "Table"     -> "Table"
      [] f = "ItemTable" -> "Table"

\* the match on fmt.format; "bail" is the anyhow::bail! arm
ItemFormatOf(f) ==
    CASE f = "Json"      -> "Json"
      [] f = "Yaml"      -> "Yaml"
      [] f = "Table"     -> "Table"
      [] f = "ItemTable" -> "bail"

\* utils::render::sanitize_value: quote, backslash and newline are escaped
RECURSIVE sanitize_value(_)
sanitize_value(v) ==
    IF v = <<>> THEN <<>>
    ELSE LET c == Head(v)
             e == CASE c = QUOTE     -> <<BACKSLASH, QUOTE>>
                    [] c = BACKSLASH -> <<BACKSLASH, BACKSLASH>>
                    [] c = NEWLINE   -> <<BACKSLASH, "n">>
                    [] OTHER         -> <<c>>
         IN  e \o sanitize_value(Tail(v))

\* what fmt.render(..) writes; the serializers are external, their text is
\* kept opaque and their arguments are recorded in `rendered`
RenderedText == "<rendered>"

\* println!("{}=\"{}\"", secret.name, sanitize_value(&secret.value))
PlainLine(secret) ==
    secret.name \o <<"=", QUOTE>> \o sanitize_value(secret.value) \o <<QUOTE, NEWLINE>>

\* mutant: the secrets are printed last to first
RECURSIVE PlainAll_m(_)
PlainAll_m(secs) ==
    IF secs = <<>> THEN <<>> ELSE PlainAll_m(Tail(secs)) \o PlainLine(Head(secs))

\* `for secret in secrets { println!(..) }`
RECURSIVE PlainAll(_)
PlainAll(secs) ==
    IF secs = <<>> THEN <<>> ELSE PlainLine(Head(secs)) \o PlainAll(Tail(secs))

\* mutant: println! in place of print!
PlainSingle_m(secret) == secret.value \o <<NEWLINE>>

\* print!("{}", secret.value)
PlainSingle(secret) == secret.value

\* mutant: the secret is printed before the format is looked at
RenderSingle_m(secret, fmt) ==
    IF fmt # None
    THEN IF ItemFormatOf(fmt[1]) = "bail"
         THEN [ err |-> UnsupportedFormat, out |-> PlainSingle(secret), rendered |-> <<>> ]
         ELSE [ err |-> "",
                out |-> <<RenderedText, NEWLINE>>,
                rendered |-> << [ format |-> ItemFormatOf(fmt[1]), items |-> <<secret>> ] >> ]
    ELSE [ err |-> "", out |-> PlainSingle(secret), rendered |-> <<>> ]

\* lines 110-122: the output of the single-secret branch
RenderSingle(secret, fmt) ==
    IF fmt # None
    THEN IF ItemFormatOf(fmt[1]) = "bail"
         THEN [ err |-> UnsupportedFormat, out |-> <<>>, rendered |-> <<>> ]
         ELSE [ err |-> "",
                out |-> <<RenderedText, NEWLINE>>,
                rendered |-> << [ format |-> ItemFormatOf(fmt[1]), items |-> <<secret>> ] >> ]
    ELSE [ err |-> "", out |-> PlainSingle(secret), rendered |-> <<>> ]

\* lines 126-136: the output of the all-secrets branch
RenderAll(secs, fmt) ==
    IF fmt # None
    THEN [ err |-> "",
           out |-> <<RenderedText, NEWLINE>>,
           rendered |-> << [ format |-> fmt[1], items |-> secs ] >> ]
    ELSE [ err |-> "", out |-> PlainAll(secs), rendered |-> <<>> ]

-----------------------------------------------------------------------------
(* State machine *)

Init ==
    /\ self \in CmdAppSecretsReveal
    /\ fs_config \in {"Err", "None"} \cup ConfigIds
    /\ pc = "cli"
    /\ app_id = ""
    /\ name = None
    /\ value = None
    /\ secrets = <<>>
    /\ err = ""
    /\ raised = {}
    /\ log = <<>>
    /\ outstanding = 0
    /\ stdout = <<>>
    /\ rendered = <<>>

\* `?` / bail!: the error leaves run_async
Bail(e) ==
    /\ pc' = "failed"
    /\ err' = e
    /\ raised' = raised \cup {e}

NoError == UNCHANGED <<err, raised>>

\* clap's argument validation, before run_async is entered
Parse ==
    /\ pc = "cli"
    /\ pc' = IF Conflicts(self) THEN "rejected" ELSE "run_async"
    /\ UNCHANGED <<self, fs_config, app_id, name, value, secrets, err, raised, log,
                   outstanding, stdout, rendered>>

\* line 100: let client = self.api.client()?
Client ==
    /\ pc = "run_async"
    /\ log' = Append(log, "client")
    /\ \E ok \in BOOLEAN :
         IF ok THEN pc' = "get_app_id" /\ NoError ELSE Bail(ClientError)
    /\ UNCHANGED <<self, fs_config, app_id, name, value, secrets, outstanding,
                   stdout, rendered>>

\* lines 55-56: the explicit id is sent to AppIdent::resolve
GetAppIdExplicit ==
    /\ pc = "get_app_id"
    /\ HasExplicitAppId(self)
    /\ log' = Append(log, "resolve")
    /\ outstanding' = outstanding + 1
    /\ pc' = "resolve"
    /\ UNCHANGED <<self, fs_config, app_id, name, value, secrets, err, raised,
                   stdout, rendered>>

\* lines 56-57 and 74-75: resolve(..).await? returns
ResolveReturn ==
    /\ pc = "resolve"
    /\ outstanding' = outstanding - 1
    /\ log' = Append(log, "resolve.ret")
    /\ \E r \in ResolvedIds \cup {ResolutionError} :
         IF r = ResolutionError
         THEN Bail(r) /\ UNCHANGED app_id
         ELSE app_id' = r /\ pc' = "have_app" /\ NoError
    /\ UNCHANGED <<self, fs_config, name, value, secrets, stdout, rendered>>

\* lines 60-64: the directory of the project config
GetAppDir ==
    /\ pc = "get_app_id"
    /\ ~HasExplicitAppId(self)
    /\ IF self.app_dir_path # None
       THEN pc' = "read_config" /\ NoError /\ UNCHANGED log
       ELSE /\ log' = Append(log, "current_dir")
            /\ \E ok \in BOOLEAN :
                 IF ok THEN pc' = "read_config" /\ NoError ELSE Bail(IoError)
    /\ UNCHANGED <<self, fs_config, app_id, name, value, secrets, outstanding,
                   stdout, rendered>>

\* lines 66-72: the config is read; without an id in it the command bails
\* or goes on to the prompt
ReadConfig ==
    /\ pc = "read_config"
    /\ log' = Append(log, "get_app_id_from_config")
    /\ LET swallowed == IF fs_config = "Err" THEN {ConfigError} ELSE {}
       IN  IF ConfigYieldsId(fs_config)
           THEN app_id' = fs_config /\ pc' = "have_app" /\ NoError
           ELSE IF MayPrompt(self)
           THEN /\ pc' = "prompt_app"
                /\ raised' = raised \cup swallowed
                /\ UNCHANGED <<app_id, err>>
           ELSE /\ pc' = "failed"
                /\ err' = MissingAppId
                /\ raised' = raised \cup swallowed \cup {MissingAppId}
                /\ UNCHANGED app_id
    /\ UNCHANGED <<self, fs_config, name, value, secrets, outstanding, stdout, rendered>>

\* lines 73-74: prompt_app_ident(..)?, then the answer is sent to resolve
PromptApp ==
    /\ pc = "prompt_app"
    /\ \E r \in AppIdents \cup {InputError} :
         IF r = InputError
         THEN /\ Bail(r)
              /\ log' = Append(log, "prompt_app_ident")
              /\ UNCHANGED outstanding
         ELSE /\ log' = log \o <<"prompt_app_ident", "resolve">>
              /\ outstanding' = outstanding + 1
              /\ pc' = "resolve"
              /\ NoError
    /\ UNCHANGED <<self, fs_config, app_id, name, value, secrets, stdout, rendered>>

\* lines 103-106 with get_secret_name (79-92): the name is taken from the
\* arguments or the prompt, then the lookup is sent
GetSecretName ==
    /\ pc = "have_app"
    /\ NeedsSecretName(self)
    /\ \/ /\ self.secret_name # None
          /\ name' = self.secret_name
          /\ log' = log \o <<"get_secret_name", "get_secret_value_by_name">>
          /\ outstanding' = outstanding + 1
          /\ pc' = "await_value"
          /\ NoError
       \/ /\ self.secret_name = None
          /\ ~MayPrompt(self)
          /\ log' = Append(log, "get_secret_name")
          /\ Bail(MissingSecretName)
          /\ UNCHANGED <<name, outstanding>>
       \/ /\ self.secret_name = None
          /\ MayPrompt(self)
          /\ \E r \in SecretNames \cup {<<InputError>>} :
               IF r = <<InputError>>
               THEN /\ log' = log \o <<"get_secret_name", "prompt_secret_name">>
                    /\ Bail(InputError)
                    /\ UNCHANGED <<name, outstanding>>
               ELSE /\ name' = Some(r)
                    /\ log' = log \o <<"get_secret_name", "prompt_secret_name",
                                       "get_secret_value_by_name">>
                    /\ outstanding' = outstanding + 1
                    /\ pc' = "await_value"
                    /\ NoError
    /\ UNCHANGED <<self, fs_config, app_id, value, secrets, stdout, rendered>>

\* lines 106-122, 139: the lookup returns and the secret is printed
GetSecretValueReturn ==
    /\ pc = "await_value"
    /\ outstanding' = outstanding - 1
    /\ \E r \in {Some(v) : v \in SecretValues} \cup {<<NotFoundError, "">>, <<ApiError, "">>} :
         IF Len(r) = 2
         THEN /\ Bail(r[1])
              /\ log' = Append(log, "get_secret_value_by_name.ret")
              /\ UNCHANGED <<value, stdout, rendered>>
         ELSE LET secret == [ name |-> name[1], value |-> r[1] ]
                  res == RenderSingle(secret, self.fmt)
              IN  /\ value' = r
                  /\ stdout' = stdout \o res.out
                  /\ rendered' = rendered \o res.rendered
                  /\ log' = log \o <<"get_secret_value_by_name.ret">>
                                \o (IF res.out # <<>> THEN <<"print">> ELSE <<>>)
                  /\ IF res.err # "" THEN Bail(res.err) ELSE pc' = "done" /\ NoError
    /\ UNCHANGED <<self, fs_config, app_id, name, secrets>>

\* line 124: the listing is sent
RevealSecrets ==
    /\ pc = "have_app"
    /\ ~NeedsSecretName(self)
    /\ log' = Append(log, "reveal_secrets")
    /\ outstanding' = outstanding + 1
    /\ pc' = "await_secrets"
    /\ UNCHANGED <<self, fs_config, app_id, name, value, secrets, err, raised,
                   stdout, rendered>>

\* mutant: a failed listing is replaced by the empty list (unwrap_or_default)
RevealSecretsReturn_m ==
    /\ pc = "await_secrets"
    /\ outstanding' = outstanding - 1
    /\ \/ /\ raised' = raised \cup {ApiError}
          /\ log' = Append(log, "reveal_secrets.ret")
          /\ pc' = "done"
          /\ UNCHANGED <<secrets, stdout, rendered, err>>
       \/ \E r \in SecretLists :
            LET res == RenderAll(r, self.fmt)
            IN  /\ secrets' = r
                /\ stdout' = stdout \o res.out
                /\ rendered' = rendered \o res.rendered
                /\ log' = log \o <<"reveal_secrets.ret">>
                              \o (IF res.out # <<>> THEN <<"print">> ELSE <<>>)
                /\ pc' = "done"
                /\ NoError
    /\ UNCHANGED <<self, fs_config, app_id, name, value>>

\* lines 124-139: the listing returns and the secrets are printed
RevealSecretsReturn ==
    /\ pc = "await_secrets"
    /\ outstanding' = outstanding - 1
    /\ \/ /\ Bail(ApiError)
          /\ log' = Append(log, "reveal_secrets.ret")
          /\ UNCHANGED <<secrets, stdout, rendered>>
       \/ \E r \in SecretLists :
            LET res == RenderAll(r, self.fmt)
            IN  /\ secrets' = r
                /\ stdout' = stdout \o res.out
                /\ rendered' = rendered \o res.rendered
                /\ log' = log \o <<"reveal_secrets.ret">>
                              \o (IF res.out # <<>> THEN <<"print">> ELSE <<>>)
                /\ pc' = "done"
                /\ NoError
    /\ UNCHANGED <<self, fs_config, app_id, name, value>>

Next ==
    \/ Parse
    \/ Client
    \/ GetAppIdExplicit
    \/ ResolveReturn
    \/ GetAppDir
    \/ ReadConfig
    \/ PromptApp
    \/ GetSecretName
    \/ GetSecretValueReturn
    \/ RevealSecrets
    \/ RevealSecretsReturn

Spec == Init /\ [][Next]_vars

-----------------------------------------------------------------------------
(* Vocabulary of the properties *)

Has(e) == \E i \in DOMAIN log : log[i] = e

Prompted == Has("prompt_app_ident") \/ Has("prompt_secret_name")

NetworkCalled ==
    Has("resolve") \/ Has("get_secret_value_by_name") \/ Has("reveal_secrets")

Finished == pc \in {"done", "failed"}

RECURSIVE Flatten(_)
Flatten(ss) == IF ss = <<>> THEN <<>> ELSE Head(ss) \o Flatten(Tail(ss))

TypeOK ==
    /\ self \in CmdAppSecretsReveal
    /\ fs_config \in {"Err", "None"} \cup ConfigIds
    /\ pc \in {"cli", "rejected", "run_async", "get_app_id", "resolve", "read_config",
               "prompt_app", "have_app", "await_value", "await_secrets", "done", "failed"}
    /\ app_id \in {""} \cup ResolvedIds \cup ConfigIds
    /\ name \in Option(SecretNames)
    /\ value \in Option(SecretValues)
    /\ secrets \in SecretLists
    /\ outstanding \in 0..1

-----------------------------------------------------------------------------
(* C1: an explicit app id is resolved remotely and the config file and the *)
(* prompt are never used; without an explicit id, an id found in the       *)
(* config file is returned as it is, with no prompt and no resolve call,   *)
(* whatever non_interactive is.                                            *)
C1_Priority ==
    /\ self.app_id # None =>
         /\ ~Has("current_dir")
         /\ ~Has("get_app_id_from_config")
         /\ ~Has("prompt_app_ident")
         /\ app_id # "" => (app_id \in ResolvedIds /\ Has("resolve.ret"))
         /\ (Finished /\ app_id = "") => err \in {ClientError, ResolutionError}
    /\ (self.app_id = None /\ fs_config \in ConfigIds) =>
         /\ ~Has("prompt_app_ident")
         /\ ~Has("resolve")
         /\ app_id # "" => app_id = fs_config
         /\ Has("get_app_id_from_config") => app_id = fs_config

C1_Witness ==
    /\ self.app_id # None
    /\ fs_config \in ConfigIds
    /\ ~self.non_interactive
    /\ app_id \in ResolvedIds
    /\ pc = "done"

(* C2 as stated: a finished run with non_interactive, no explicit id and   *)
(* no id in the config file has failed with "No app id given", without     *)
(* prompt and without network call.                                        *)
C2_Original ==
    (Finished /\ self.non_interactive /\ self.app_id = None /\ fs_config \notin ConfigIds) =>
        /\ pc = "failed"
        /\ err = MissingAppId
        /\ ~Prompted
        /\ ~NetworkCalled

(* C2 amended: under the same inputs the run never succeeds, never prompts *)
(* and never calls the network; it fails with "No app id given" once the   *)
(* config file has been read, and before that only with the error of       *)
(* client construction or of the current-directory lookup.                 *)
C2_MissingAppId ==
    (self.non_interactive /\ self.app_id = None /\ fs_config \notin ConfigIds) =>
        /\ pc # "done"
        /\ ~Prompted
        /\ ~NetworkCalled
        /\ pc = "failed" => err \in {MissingAppId, ClientError, IoError}
        /\ Has("get_app_id_from_config") => (pc = "failed" /\ err = MissingAppId)
        /\ err = ClientError => log = <<"client">>
        /\ err = IoError => (self.app_dir_path = None /\ log = <<"client", "current_dir">>)

C2_Witness ==
    /\ self.non_interactive
    /\ self.app_id = None
    /\ fs_config = "Err"
    /\ pc = "failed"
    /\ err = MissingAppId

(* C3: with name and --all together, or app_id and --app-dir together, the *)
(* command stops at argument validation: run_async is not entered, nothing *)
(* is resolved, prompted, fetched or printed.                              *)
C3_Rejected ==
    ((self.secret_name # None /\ self.all) \/ (self.app_id # None /\ self.app_dir_path # None)) =>
        /\ pc \in {"cli", "rejected"}
        /\ log = <<>>
        /\ outstanding = 0
        /\ app_id = ""
        /\ stdout = <<>>

C3_Witness ==
    /\ pc = "rejected"
    /\ self.secret_name # None
    /\ self.all
    /\ self.app_id # None
    /\ self.app_dir_path = None

(* C4 as stated: a finished single-secret run with item-table has failed   *)
(* with the item-table message, whatever the other steps did.              *)
C4_Original ==
    (Finished /\ ~self.all /\ self.fmt = Some("ItemTable")) =>
        (pc = "failed" /\ err = UnsupportedFormat)

(* C4 amended: a single-secret run with item-table never succeeds and      *)
(* prints nothing; it fails with the item-table message exactly when the   *)
(* client, the app, the secret name and the remote value were all          *)
(* obtained, and otherwise with the error of the step that failed first.   *)
C4_ItemTable ==
    (~self.all /\ self.fmt = Some("ItemTable")) =>
        /\ pc # "done"
        /\ stdout = <<>>
        /\ rendered = <<>>
        /\ value # None => (pc = "failed" /\ err = UnsupportedFormat)
        /\ err = UnsupportedFormat =>
             (app_id # "" /\ name # None /\ value # None
                /\ Has("get_secret_value_by_name.ret"))
        /\ (pc = "failed" /\ value = None) =>
             err \in {ClientError, ResolutionError, IoError, MissingAppId, InputError,
                      MissingSecretName, NotFoundError, ApiError}

C4_Witness ==
    /\ ~self.all
    /\ self.fmt = Some("ItemTable")
    /\ pc = "failed"
    /\ err = UnsupportedFormat
    /\ value # None

(* C5 as stated: every error raised by a step, the project-config read     *)
(* included, is the error the command fails with.                          *)
C5_Original ==
    \A e \in raised : pc = "failed" /\ err = e

(* C5 amended: every error raised by a step other than the project-config  *)
(* read is the error the command fails with, at once; an error of the      *)
(* project-config read is dropped, the run goes on as if the file held no  *)
(* app id (to the prompt, or to "No app id given").                        *)
C5_Propagation ==
    /\ \A e \in raised \ {ConfigError} : pc = "failed" /\ err = e
    /\ pc = "failed" => err \in raised
    /\ err # ConfigError
    /\ ConfigError \in raised =>
         /\ fs_config = "Err"
         /\ pc \in {"prompt_app", "resolve", "have_app", "await_value", "await_secrets",
                    "done", "failed"}
         /\ self.non_interactive => (pc = "failed" /\ err = MissingAppId)
         /\ ~self.non_interactive => (pc = "prompt_app" \/ Has("prompt_app_ident"))

C5_Witness ==
    /\ pc = "failed"
    /\ err = ApiError
    /\ ConfigError \in raised
    /\ Has("reveal_secrets.ret")

(* C6: the steps run in the order app, secret name (single mode only),     *)
(* fetch, print; a step starts only when the one before has produced its   *)
(* result; at most one remote call is outstanding; in all-mode no secret   *)
(* name is resolved or prompted for.                                       *)
Stage(e) ==
    CASE e = "client" -> 0
      [] e \in {"resolve", "resolve.ret", "current_dir", "get_app_id_from_config",
                "prompt_app_ident"} -> 1
      [] e \in {"get_secret_name", "prompt_secret_name"} -> 2
      [] e \in {"get_secret_value_by_name", "reveal_secrets"} -> 3
      [] e \in {"get_secret_value_by_name.ret", "reveal_secrets.ret"} -> 4
      [] e = "print" -> 5

IsCall(e) == e \in {"resolve", "get_secret_value_by_name", "reveal_secrets"}
IsReturn(e) == e \in {"resolve.ret", "get_secret_value_by_name.ret", "reveal_secrets.ret"}

C6_Sequential ==
    /\ \A i, j \in DOMAIN log : i < j => Stage(log[i]) <= Stage(log[j])
    /\ outstanding <= 1
    /\ \A i \in DOMAIN log :
         /\ IsCall(log[i]) => (i = Len(log) \/ IsReturn(log[i + 1]))
         /\ IsReturn(log[i]) => (i > 1 /\ IsCall(log[i - 1]))
    /\ (\E i \in DOMAIN log : Stage(log[i]) >= 2) => app_id # ""
    /\ Has("get_secret_value_by_name") => (~self.all /\ name # None)
    /\ Has("reveal_secrets") => self.all
    /\ Has("print") => (outstanding = 0 /\ pc = "done"
                         /\ (Has("get_secret_value_by_name.ret") \/ Has("reveal_secrets.ret")))
    /\ stdout # <<>> => Has("print")
    /\ self.all => (name = None /\ ~Has("get_secret_name") /\ ~Has("prompt_secret_name"))

C6_Witness ==
    /\ pc = "done"
    /\ self.all
    /\ ~self.non_interactive
    /\ Has("prompt_app_ident")
    /\ Has("print")

(* C7: in all-mode without a format the output is, for the delivered       *)
(* secrets in the delivered order, one println of name="sanitize(value)"   *)
(* each, nothing dropped, reordered or merged; nothing for an empty list.  *)
C7_PlainAll ==
    (pc = "done" /\ self.all /\ self.fmt = None) =>
        stdout = Flatten([ i \in 1..Len(secrets) |->
                             secrets[i].name \o <<"=", "\"">>
                               \o sanitize_value(secrets[i].value) \o <<"\"", "\n">> ])

C7_Witness ==
    /\ pc = "done"
    /\ self.all
    /\ self.fmt = None
    /\ Len(secrets) >= 2
    /\ secrets[1].name = secrets[2].name
    /\ secrets[1].value = <<"a", "\"", "b">>
    /\ secrets[2].value = <<>>

(* C8: in single mode without a format, stdout is exactly the value the    *)
(* remote lookup returned: no name, no quotes, no escaping, no newline.    *)
C8_RawValue ==
    (pc = "done" /\ ~self.all /\ self.fmt = None) =>
        (value # None /\ stdout = value[1])

C8_Witness ==
    /\ pc = "done"
    /\ ~self.all
    /\ self.fmt = None
    /\ value = Some(<<"a", "\"", "b">>)
    /\ stdout = <<"a", "\"", "b">>

(* C9: in all-mode without a format the output is one line per delivered   *)
(* secret and every line reads KEY="VALUE": the first quote that is not    *)
(* escaped after the opening =" is the last character of the line.         *)
RECURSIVE SplitLines(_, _)
SplitLines(s, cur) ==
    IF s = <<>> THEN (IF cur = <<>> THEN <<>> ELSE <<cur>>)
    ELSE IF Head(s) = "\n" THEN <<cur>> \o SplitLines(Tail(s), <<>>)
    ELSE SplitLines(Tail(s), Append(cur, Head(s)))

\* no quote outside an escape pair, no backslash left dangling
RECURSIVE QuotedBody(_)
QuotedBody(b) ==
    IF b = <<>> THEN TRUE
    ELSE IF Head(b) = "\\" THEN Len(b) >= 2 /\ QuotedBody(Tail(Tail(b)))
    ELSE Head(b) # "\"" /\ QuotedBody(Tail(b))

KeyValueShape(line) ==
    \E k \in 1..Len(line) :
        /\ k + 2 <= Len(line)
        /\ \A i \in 1..(k - 1) : line[i] \notin {"=", "\""}
        /\ line[k] = "="
        /\ line[k + 1] = "\""
        /\ line[Len(line)] = "\""
        /\ QuotedBody(SubSeq(line, k + 2, Len(line) - 1))

C9_Shape ==
    (pc = "done" /\ self.all /\ self.fmt = None) =>
        LET lines == SplitLines(stdout, <<>>)
        IN  /\ Len(lines) = Len(secrets)
            /\ \A i \in DOMAIN lines : KeyValueShape(lines[i])

(* C10: a run that ends with an error has written nothing to standard      *)
(* output; output exists only in runs that return success.                 *)
C10_NoPartialOutput ==
    /\ pc = "failed" => (stdout = <<>> /\ rendered = <<>>)
    /\ (stdout # <<>> \/ rendered # <<>>) => (pc = "done" /\ err = "")

C10_Witness ==
    /\ pc = "failed"
    /\ err = UnsupportedFormat
    /\ value = Some(<<"a", "\"", "b">>)
    /\ stdout = <<>>

====
